---------------------------- MODULE Spec2Model ----------------------------
(***************************************************************************)
(* BatchPix (src/app.py): the batch conversion engine.                     *)
(*                                                                         *)
(*   - compute_new_size   the resize planner (pure)                        *)
(*   - unique_path        the output namer (pure over the file system)     *)
(*   - ConvertWorker.run  the worker thread of one conversion job          *)
(*   - MainWindow         the handlers that share state with the worker    *)
(*                                                                         *)
(* Specifications over the same variables:                                 *)
(*   Spec       the window, the worker thread and the output directories   *)
(*   FairSpec   Spec with a fair worker thread and a fair event loop       *)
(*   SpecRun    the worker thread alone, its file list left untouched      *)
(*   SpecAgain  one file list converted again and again                    *)
(*   SpecPlan   compute_new_size applied to inputs drawn from bounded sets *)
(*   SpecNamer  unique_path applied to directories drawn from bounded sets *)
(*   SpecScan   collect_images_from_path applied to bounded trees          *)
(*   SpecSave   save_image applied to images of every mode                 *)
(***************************************************************************)
EXTENDS Integers, Sequences, FiniteSets, TLC

(***************************************************************************)
(* Bounds of the model.                                                    *)
(***************************************************************************)
\* largest original width / height and largest width / height bound (SpecPlan)
MaxDim == 4
\* longest file list handed to a worker (SpecRun)
MaxBatch == 3
\* conversions started in one behaviour
MaxRuns == 1
\* conversions started in one behaviour of SpecAgain
MaxAgain == 2
\* largest index i of a pre-existing "stem (i).ext" (SpecNamer)
MaxTaken == 3

(***************************************************************************)
(* Python values.                                                          *)
(***************************************************************************)
\* an Optional value: None is the empty tuple, a value x the tuple <<x>>
NoneVal == <<>>
Some(x) == <<x>>
Val(o) == o[1]

\* truth value of an Optional[int]: None and 0 are falsy
Truthy(o) == o # NoneVal /\ Val(o) # 0

Max(a, b) == IF a >= b THEN a ELSE b

(***************************************************************************)
(* int(round(n / d)) for d > 0.  Python's round is round-half-to-even on   *)
(* the float it is given.  The code computes that float as dim * (x / y)   *)
(* in IEEE doubles, so where the exact quotient is a tie k + 1/2 the float *)
(* may lie one ulp below or above it (25 * (406 / 100.0) < 101.5), and     *)
(* the result is k or k + 1 accordingly.  e is the sign of that error at a *)
(* tie: -1 below, 1 above, 0 exact (then half-to-even decides).  Away      *)
(* from a tie the error is far smaller than the distance to the tie and    *)
(* the nearest integer is returned.                                        *)
(***************************************************************************)
Round(n, d, e) ==
    LET q == n \div d
        r == n % d
    IN  IF 2 * r < d THEN q
        ELSE IF 2 * r > d THEN q + 1
        ELSE IF e = -1 THEN q
        ELSE IF e = 1 THEN q + 1
        ELSE IF q % 2 = 0 THEN q ELSE q + 1

\* the float errors of the two roundings of one call
FloatErr == {-1, 0, 1} \X {-1, 0, 1}

(***************************************************************************)
(* The float error of dim * (num / float(den)) at a tie, where IEEE double *)
(* arithmetic has been worked out: for the factors x / 100.0 of percent    *)
(* mode with dim < 25 and 1 <= x <= 500 the product is exact at every tie  *)
(* but one, 15 * (410 / 100.0) = 61.49999999999999 < 61.5; for             *)
(* dim, num, den <= 8 it is exact at every tie.  Elsewhere the error is    *)
(* left open (e).                                                          *)
(***************************************************************************)
TieErr(dim, num, den, e) ==
    IF den = 100 /\ dim \in 1..24 /\ num \in 1..500
    THEN (IF dim = 15 /\ num = 410 THEN -1 ELSE 0)
    ELSE IF dim \in 1..8 /\ num \in 1..8 /\ den \in 1..8 THEN 0
    ELSE e

\* the floor of 1 forgotten
RoundNoFloor(n, d, e) == Round(n, d, e)

\* max(1, int(round(n / d)))
RoundMin1(n, d, e) == Max(1, Round(n, d, e))

(***************************************************************************)
(* compute_new_size(w, h, mode, keep_aspect, width, height, percent).      *)
(* fe is the pair of float errors of its two roundings.                    *)
(***************************************************************************)
\* r = max(rw, rh): fill, not fit
FitFill(w, h, width, height, fe) ==
    IF width * h >= height * w
    THEN <<RoundMin1(w * width, w, TieErr(w, width, w, fe[1])),
           RoundMin1(h * width, w, TieErr(h, width, w, fe[2]))>>
    ELSE <<RoundMin1(w * height, h, TieErr(w, height, h, fe[1])),
           RoundMin1(h * height, h, TieErr(h, height, h, fe[2]))>>

FitWithin(w, h, width, height, fe) ==
    \* rw = width / w, rh = height / h, r = min(rw, rh)
    IF width * h <= height * w
    THEN <<RoundMin1(w * width, w, TieErr(w, width, w, fe[1])),
           RoundMin1(h * width, w, TieErr(h, width, w, fe[2]))>>
    ELSE <<RoundMin1(w * height, h, TieErr(w, height, h, fe[1])),
           RoundMin1(h * height, h, TieErr(h, height, h, fe[2]))>>

compute_new_size(w, h, mode, keep_aspect, width, height, percent, fe) ==
    IF mode = "none" THEN <<w, h>>
    ELSE IF mode = "percent" /\ Truthy(percent)
    THEN <<RoundMin1(w * Val(percent), 100, TieErr(w, Val(percent), 100, fe[1])),
           RoundMin1(h * Val(percent), 100, TieErr(h, Val(percent), 100, fe[2]))>>
    ELSE IF ~Truthy(width) /\ ~Truthy(height) THEN <<w, h>>
    ELSE IF keep_aspect
    THEN IF Truthy(width) /\ ~Truthy(height)
         THEN <<Val(width),
                RoundMin1(h * Val(width), w, TieErr(h, Val(width), w, fe[2]))>>
         ELSE IF Truthy(height) /\ ~Truthy(width)
         THEN <<RoundMin1(w * Val(height), h, TieErr(w, Val(height), h, fe[1])),
                Val(height)>>
         ELSE FitWithin(w, h, Val(width), Val(height), fe)
    ELSE <<IF Truthy(width) THEN Val(width) ELSE w,
           IF Truthy(height) THEN Val(height) ELSE h>>

(***************************************************************************)
(* Paths.  A path is its folder, its stem and its extension; the stem is   *)
(* a base name followed by the " (i)" suffixes unique_path has appended,   *)
(* so that the stem "a (1)" of an input file and the stem unique_path      *)
(* builds from "a" and i = 1 are the same string.                          *)
(***************************************************************************)
OUT_FORMATS == {"PNG", "JPG", "WEBP"}

\* str.lower() on the three format names
Lower(fmt) ==
    CASE fmt = "PNG" -> "png"
      [] fmt = "JPG" -> "jpg"
      [] fmt = "WEBP" -> "webp"

MkPath(dir, base, sfx, ext) == [dir |-> dir, base |-> base, sfx |-> sfx, ext |-> ext]

\* path.with_stem(f"{path.stem} ({i})")
WithIndex(path, i) == [path EXCEPT !.sfx = Append(@, i)]

\* out_base / f"BatchPix_{out_fmt.lower()}"
OutDirOf(out_fmt) == <<"BatchPix_", Lower(out_fmt)>>

\* the JPG extension spelt out in full
ExtOfJpeg(out_fmt) == IF out_fmt = "JPG" THEN "jpeg" ELSE Lower(out_fmt)

\* ext = "jpg" if self.out_fmt == "JPG" else self.out_fmt.lower()
ExtOf(out_fmt) == IF out_fmt = "JPG" THEN "jpg" ELSE Lower(out_fmt)

(***************************************************************************)
(* unique_path(path), over the set of paths at which something exists.     *)
(***************************************************************************)
RECURSIVE Probe(_, _, _)
Probe(exists, path, i) ==
    LET candidate == WithIndex(path, i)
    IN  IF candidate \notin exists THEN candidate ELSE Probe(exists, path, i + 1)

\* the probe goes on from the number of names taken, not from 1
unique_path_count(exists, path) ==
    IF path \notin exists THEN path
    ELSE Probe(exists, path,
               1 + Cardinality({q \in exists : q.dir = path.dir /\ q.ext = path.ext
                                               /\ q.base = path.base /\ q # path}))

\* no probe at all: the path as asked for
unique_path_same(exists, path) == path

unique_path(exists, path) ==
    IF path \notin exists THEN path ELSE Probe(exists, path, 1)

(***************************************************************************)
(* The files of the model.  Two input images with the same stem, and the   *)
(* names that may exist in the output directories before the first         *)
(* conversion; Out_a_jpg is also an image in the JPG output directory      *)
(* with the target extension.                                              *)
(***************************************************************************)
A_png == MkPath(<<"inA">>, "a", <<>>, "png")
A_bmp == MkPath(<<"inA">>, "a", <<>>, "bmp")
Out_a_jpg == MkPath(OutDirOf("JPG"), "a", <<>>, "jpg")

\* images outside the output directories: they exist throughout
InputImages == {A_png, A_bmp}

\* what the output directories may hold before the first conversion
PreExisting == {Out_a_jpg}

\* im.size of a decoded input
ImageSize(p) ==
    IF p = A_png THEN <<100, 50>> ELSE IF p = A_bmp THEN <<6, 6>> ELSE <<2, 4>>

NoPath == MkPath(<<>>, "", <<>>, "")

\* what a path holds: a file that was there before the first conversion, a
\* complete output, or the remains of a failed save
PreFile == "pre"
Partial == "partial"
Output == "output"

\* the file system after a write of content c at path p
Write(f, p, c) == [q \in (DOMAIN f) \cup {p} |-> IF q = p THEN c ELSE f[q]]

VARIABLES
    files,        \* MainWindow.files; ConvertWorker.files is the same list object
    btn_convert,  \* MainWindow.btn_convert.isEnabled()
    pc,           \* where the worker thread is
    job,          \* the fields of the ConvertWorker (but files)
    total,        \* run: total
    done,         \* run: done
    it,           \* run: index of the list iterator of "for fp in self.files"
    fp,           \* run: fp
    fs,           \* the files of the output directories: path -> content
    dirs,         \* the output directories that exist
    inbox,        \* signals emitted and not yet delivered to the window
    events,       \* history: the signals the current worker has emitted
    attempted,    \* history: the files the current worker has attempted
    job_files,    \* history: MainWindow.files when Convert was triggered
    uncaught,     \* history: exceptions that left convert_all uncaught
    runs,         \* history: workers started
    plan,         \* SpecPlan: arguments and result of compute_new_size
    namer,        \* SpecNamer: argument and results of unique_path
    scan,         \* SpecScan: argument and result of collect_images_from_path
    enc           \* SpecSave: arguments of save_image and what it encodes

vars == <<files, btn_convert, pc, job, total, done, it, fp, fs, dirs, inbox,
          events, attempted, job_files, uncaught, runs, plan, namer, scan, enc>>

gui_vars == <<files, btn_convert>>
run_vars == <<pc, job, total, done, it, fp>>
fs_vars == <<fs, dirs>>
hist_vars == <<events, attempted, job_files, uncaught, runs>>
pure_vars == <<plan, namer, scan, enc>>

NoJob == [out_dir |-> <<>>, out_fmt |-> "", resize_mode |-> "none",
          keep_aspect |-> TRUE, width |-> NoneVal, height |-> NoneVal,
          percent |-> NoneVal]

NoPlan == [w |-> 1, h |-> 1, mode |-> "none", keep_aspect |-> TRUE,
           width |-> NoneVal, height |-> NoneVal, percent |-> NoneVal,
           fe |-> <<0, 0>>, called |-> FALSE, out |-> <<0, 0>>]

NoNamer == [exists |-> {}, path |-> NoPath, out |-> <<>>]

NoEnc == [img |-> [mode |-> "RGB", transparency |-> FALSE, clear |-> FALSE],
          fmt |-> "PNG", quality |-> 85, called |-> FALSE,
          out |-> [format |-> "", mode |-> "", pixels |-> ""]]

NoScan == [tree |-> {}, root |-> NoPath, strict |-> FALSE, called |-> FALSE,
           res |-> [raised |-> FALSE, out |-> <<>>]]

\* the signals
Progress(d, t) == [sig |-> "progress", done |-> d, total |-> t, arg |-> <<>>]
FinishedOk(out_dir) == [sig |-> "finished_ok", done |-> 0, total |-> 0, arg |-> out_dir]
Failed(msg) == [sig |-> "failed", done |-> 0, total |-> 0, arg |-> msg]

InitWindow ==
    /\ files = <<>>
    /\ btn_convert = TRUE
    /\ pc = "none"
    /\ job = NoJob
    /\ total = 0
    /\ done = 0
    /\ it = 0
    /\ fp = NoPath
    /\ inbox = <<>>
    /\ events = <<>>
    /\ attempted = <<>>
    /\ job_files = <<>>
    /\ uncaught = 0
    /\ runs = 0

Init ==
    /\ InitWindow
    /\ \E pre \in SUBSET PreExisting :
          /\ fs = [p \in pre |-> PreFile]
          /\ dirs = {p.dir : p \in pre}
    /\ plan = NoPlan
    /\ namer = NoNamer
    /\ scan = NoScan
    /\ enc = NoEnc

(***************************************************************************)
(* What the user can hand to the window: image files, a file that is no    *)
(* image, a folder, a path at which nothing exists.                        *)
(***************************************************************************)
SUPPORTED_EXTS == {"png", "jpg", "jpeg", "webp", "bmp", "tif", "tiff"}

Notes_txt == MkPath(<<"inA">>, "notes", <<>>, "txt")
Missing_png == MkPath(<<"inA">>, "gone", <<>>, "png")

\* the path of the directory d; its parent; the parent of a file is its folder
DirPath(d) == MkPath(d, "", <<>>, "")
ParentOf(p) ==
    IF p.base = "" THEN DirPath(SubSeq(p.dir, 1, Len(p.dir) - 1)) ELSE DirPath(p.dir)
Dir_inA == DirPath(<<"inA">>)

(***************************************************************************)
(* A directory tree is a set of entries: the path, the kind (a regular     *)
(* file, a directory, a directory that can be listed but not searched, a   *)
(* fifo, a symbolic link), the target of a link, and the rank of the       *)
(* entry in the listing of its directory.  The links of the model point    *)
(* at entries that are no links.                                           *)
(***************************************************************************)
Ent(p, kind, to, ord) == [p |-> p, kind |-> kind, to |-> to, ord |-> ord]
Present(t, p) == \E e \in t : e.p = p
EntryAt(t, p) == CHOOSE e \in t : e.p = p

\* os.stat(p), symbolic links followed: what is there, or the error
Stat(t, p) ==
    LET KindStat(k) == IF k = "file" THEN "file"
                       ELSE IF k \in {"dir", "dir_r"} THEN "dir" ELSE "other"
    IN  IF Present(t, ParentOf(p)) /\ EntryAt(t, ParentOf(p)).kind = "dir_r"
        THEN "denied"
        ELSE IF ~Present(t, p) THEN "missing"
        ELSE IF EntryAt(t, p).kind # "link" THEN KindStat(EntryAt(t, p).kind)
        ELSE IF ~Present(t, EntryAt(t, p).to) THEN "missing"
        ELSE KindStat(EntryAt(t, EntryAt(t, p).to).kind)

\* Path.is_file() and Path.is_dir() answer False when os.stat fails with
\* ENOENT, ENOTDIR, EBADF or ELOOP; any other OSError (EACCES) is raised
\* again by the pathlib of Python before 3.14 (strict) and answered False
\* by the later ones
StatRaises(t, p, strict) == strict /\ Stat(t, p) = "denied"

\* p.suffix.lower()
SuffixLower(ext) ==
    CASE ext = "PNG" -> "png"
      [] ext = "JPG" -> "jpg"
      [] OTHER -> ext

\* p.is_file()
IsFile(p, t) == Stat(t, p) = "file"

\* p.is_dir()
IsDir(p, t) == Stat(t, p) = "dir"

\* os.scandir(d): the entries of d, in the order of the listing
RECURSIVE SortByOrd(_)
SortByOrd(S) ==
    IF S = {} THEN <<>>
    ELSE LET e == CHOOSE x \in S : \A y \in S : x.ord <= y.ord
         IN  <<e>> \o SortByOrd(S \ {e})
Listing(t, d) == SortByOrd({e \in t : e.p # d /\ ParentOf(e.p) = d})

\* entry.is_dir(): links followed
EntryIsDir(t, e) ==
    \/ e.kind \in {"dir", "dir_r"}
    \/ e.kind = "link" /\ Present(t, e.to) /\ EntryAt(t, e.to).kind \in {"dir", "dir_r"}

\* os.walk(p), top down, followlinks = False: Path(root) / f for the names
\* that are no directories, then the same below each directory that is no link
RECURSIVE Walk(_, _)
RECURSIVE WalkAll(_, _)
WalkAll(t, ds) ==
    IF ds = <<>> THEN <<>> ELSE Walk(t, Head(ds).p) \o WalkAll(t, Tail(ds))
Walk(t, d) ==
    LET ls == Listing(t, d)
        names == SelectSeq(ls, LAMBDA e : ~EntryIsDir(t, e))
        below == SelectSeq(ls, LAMBDA e : EntryIsDir(t, e) /\ e.kind # "link")
    IN  [i \in 1..Len(names) |-> names[i].p] \o WalkAll(t, below)

is_image_file(p, t) == IsFile(p, t) /\ SuffixLower(p.ext) \in SUPPORTED_EXTS

\* collect_images_from_path(p): the list returned, or the exception of a
\* stat that was refused
ScanRaised == [raised |-> TRUE, out |-> <<>>]
ScanResult(out) == [raised |-> FALSE, out |-> out]

collect_images_from_path(p, t, strict) ==
    IF StatRaises(t, p, strict) THEN ScanRaised
    ELSE IF IsFile(p, t) THEN ScanResult(IF is_image_file(p, t) THEN <<p>> ELSE <<>>)
    ELSE IF IsDir(p, t)
    THEN LET found == Walk(t, p)
         IN  IF \E i \in 1..Len(found) : StatRaises(t, found[i], strict)
             THEN ScanRaised
             ELSE ScanResult(SelectSeq(found, LAMBDA q : is_image_file(q, t)))
    ELSE ScanResult(<<>>)

\* the folder the user picks from; the program writes nothing there
InATree ==
    {Ent(Dir_inA, "dir", NoPath, 1), Ent(A_png, "file", NoPath, 1),
     Ent(Notes_txt, "file", NoPath, 2), Ent(A_bmp, "file", NoPath, 3)}

\* that folder and the files of the output directories
GuiTree(f) == InATree \cup {Ent(q, "file", NoPath, 1) : q \in DOMAIN f}

UserPaths == {A_png, A_bmp, Notes_txt, Missing_png, Dir_inA}

InSeq(x, s) == \E i \in 1..Len(s) : s[i] = x

\* for img in imgs: if img not in self.files: self.files.append(img)
RECURSIVE AppendNew(_, _)
AppendNew(list, imgs) ==
    IF imgs = <<>> THEN list
    ELSE AppendNew(IF InSeq(Head(imgs), list) THEN list ELSE Append(list, Head(imgs)),
                   Tail(imgs))

\* imgs = collect_images_from_path(p) for each path the user can give
UserImages ==
    [p \in UserPaths |-> collect_images_from_path(p, InATree, TRUE).out]

\* every image collected is appended, those of the list included
add_paths_all(list, p) == list \o UserImages[p]

\* MainWindow.add_paths: self.files after the call
add_paths(list, p) == AppendNew(list, UserImages[p])

\* add_files_dialog, add_folder_dialog, on_drop: add_paths on what the user gave
AddPaths ==
    /\ \E list \in {add_paths(files, p) : p \in UserPaths} : files' = list
    /\ UNCHANGED <<btn_convert, run_vars, fs_vars, inbox, hist_vars, pure_vars>>

\* MainWindow.clear_files
ClearFiles ==
    /\ files' = <<>>
    /\ UNCHANGED <<btn_convert, run_vars, fs_vars, inbox, hist_vars, pure_vars>>

(***************************************************************************)
(* MainWindow.convert_all.  The widgets' values are the inputs of the      *)
(* click.                                                                  *)
(***************************************************************************)
\* the texts of edit_out: empty, a folder that does not exist, one that does
OutBases == {"", "nowhere", "base"}
\* the values the user gives the widgets in this model
\* (combo_fmt, combo_resize, chk_aspect, spin_w, spin_h, spin_percent)
GuiSettings ==
    { <<"JPG", "Width/Height", TRUE, 2, 4, 100>>,
      <<"JPG", "No resize", TRUE, 2, 4, 100>>,
      <<"PNG", "Percent", TRUE, 2, 4, 50>> }

\* MainWindow.validate: the message, or None
validate(list, out_base) ==
    IF list = <<>> THEN Some("Please add at least 1 image file.")
    ELSE IF out_base = "" THEN Some("Please choose an output folder.")
    ELSE IF out_base # "base" THEN Some("Output folder does not exist.")
    ELSE NoneVal

ResizeMode(resize_text) ==
    IF resize_text = "No resize" THEN "none"
    ELSE IF resize_text = "Width/Height" THEN "wh" ELSE "percent"

NewJob(out_fmt, resize_text, chk_aspect, spin_w, spin_h, spin_percent) ==
    LET resize_mode == ResizeMode(resize_text)
    IN  [out_dir |-> OutDirOf(out_fmt),
         out_fmt |-> out_fmt,
         resize_mode |-> resize_mode,
         keep_aspect |-> chk_aspect,
         width |-> IF resize_mode = "wh" THEN Some(spin_w) ELSE NoneVal,
         height |-> IF resize_mode = "wh" THEN Some(spin_h) ELSE NoneVal,
         percent |-> IF resize_mode = "percent" THEN Some(spin_percent) ELSE NoneVal]

\* validate() returns a message: a warning box, and nothing changes
ConvertAllRejected ==
    /\ btn_convert
    /\ \E out_base \in OutBases : validate(files, out_base) # NoneVal
    /\ UNCHANGED vars

\* safe_mkdir raises in make_auto_output_dir: convert_all has no handler, the
\* exception leaves the slot; nothing after line 430 has run
ConvertAllMkdirRaises ==
    /\ btn_convert
    /\ runs < MaxRuns
    /\ validate(files, "base") = NoneVal
    /\ uncaught' = uncaught + 1
    /\ runs' = runs + 1
    /\ UNCHANGED <<gui_vars, run_vars, fs_vars, inbox, events, attempted,
                   job_files, pure_vars>>

\* QThread.isRunning() of the worker self.worker refers to: from start()
\* until the thread has ended, which is after run() has returned
WorkerRunning == pc \notin {"none", "ended"}

\* the directory is there (or is made): the worker is created and started;
\* the worker self.worker referred to before is let go of
ConvertAllStartsWithin(max_runs) ==
    /\ btn_convert
    /\ runs < max_runs
    /\ validate(files, "base") = NoneVal
    /\ \E g \in GuiSettings :
          /\ job' = NewJob(g[1], g[2], g[3], g[4], g[5], g[6])
          /\ dirs' = dirs \cup {OutDirOf(g[1])}
    /\ btn_convert' = FALSE
    /\ pc' = "start"
    /\ total' = 0
    /\ done' = 0
    /\ it' = 0
    /\ fp' = NoPath
    /\ events' = <<>>
    /\ attempted' = <<>>
    /\ job_files' = files
    /\ runs' = runs + 1
    /\ UNCHANGED <<files, fs, inbox, uncaught, pure_vars>>

ConvertAllStarts == ConvertAllStartsWithin(MaxRuns)

\* the histories are those of the current run: they end when the window has
\* handled the run's terminal signal
RunHandled ==
    /\ events' = <<>>
    /\ attempted' = <<>>
    /\ job_files' = <<>>

\* MainWindow.on_progress, on_done, on_failed: the window takes the next signal
OnProgress ==
    /\ inbox # <<>>
    /\ Head(inbox).sig = "progress"
    /\ inbox' = Tail(inbox)
    /\ UNCHANGED <<gui_vars, run_vars, fs_vars, hist_vars, pure_vars>>

OnDone ==
    /\ inbox # <<>>
    /\ Head(inbox).sig = "finished_ok"
    /\ inbox' = Tail(inbox)
    /\ btn_convert' = TRUE
    /\ RunHandled
    /\ UNCHANGED <<files, run_vars, fs_vars, uncaught, runs, pure_vars>>

\* the failure is shown and the button left as it is
OnFailedKeepsDisabled ==
    /\ inbox # <<>>
    /\ Head(inbox).sig = "failed"
    /\ inbox' = Tail(inbox)
    /\ RunHandled
    /\ UNCHANGED <<gui_vars, run_vars, fs_vars, uncaught, runs, pure_vars>>

OnFailed ==
    /\ inbox # <<>>
    /\ Head(inbox).sig = "failed"
    /\ inbox' = Tail(inbox)
    /\ btn_convert' = TRUE
    /\ RunHandled
    /\ UNCHANGED <<files, run_vars, fs_vars, uncaught, runs, pure_vars>>

(***************************************************************************)
(* save_image(img, out_path, fmt, quality).  img.save opens out_path for   *)
(* writing and encodes into it; the call returns, or raises with nothing   *)
(* at out_path (the mode conversion failed, or the library removed what it *)
(* had created), or raises and leaves what was written so far: save_image  *)
(* has no handler of its own and writes to the final path.                 *)
(***************************************************************************)
SaveOutcomes == {"saved", "save_error", "save_error_partial"}

save_image(f, out_path, outcome) ==
    IF outcome = "saved" THEN Write(f, out_path, Output)
    ELSE IF outcome = "save_error_partial" THEN Write(f, out_path, Partial)
    ELSE f

(***************************************************************************)
(* ConvertWorker.run, on the worker thread.                                *)
(***************************************************************************)
\* signal.emit(...): queued to the window's thread
Emit(s) ==
    /\ inbox' = Append(inbox, s)
    /\ events' = Append(events, s)

\* run() returns: its locals are gone
Return ==
    /\ pc' = "done"
    /\ total' = 0
    /\ done' = 0
    /\ it' = 0
    /\ fp' = NoPath

\* safe_mkdir(self.out_dir); total = len(self.files); done = 0; iter(self.files)
RunMkdir ==
    /\ pc = "start"
    /\ dirs' = dirs \cup {job.out_dir}
    /\ total' = Len(files)
    /\ done' = 0
    /\ it' = 0
    /\ pc' = "loop"
    /\ UNCHANGED <<gui_vars, job, fp, fs, inbox, hist_vars, pure_vars>>

\* safe_mkdir raises: except Exception as e: self.failed.emit(str(e))
RunMkdirRaises ==
    /\ pc = "start"
    /\ Emit(Failed("mkdir"))
    /\ Return
    /\ UNCHANGED <<gui_vars, job, fs_vars, attempted, job_files, uncaught, runs,
                   pure_vars>>

\* for fp in self.files: the list iterator reads the list as it is now
RunNext ==
    /\ pc = "loop"
    /\ IF it < Len(files)
       THEN /\ fp' = files[it + 1]
            /\ it' = it + 1
            /\ pc' = "body"
       ELSE /\ pc' = "finish"
            /\ UNCHANGED <<fp, it>>
    /\ UNCHANGED <<gui_vars, job, total, done, fs_vars, inbox, hist_vars, pure_vars>>

\* an exception before save_image (Image.open, im.load, im.resize), or save_image
BodyOutcomes == {"error"} \cup SaveOutcomes

\* out_path = unique_path(self.out_dir / (fp.stem + "." + ext))
OutPathOf(f, out_dir, out_fmt, src) ==
    unique_path(DOMAIN f, MkPath(out_dir, src.base, src.sfx, ExtOf(out_fmt)))

\* nw, nh = compute_new_size(w, h, ...) with w, h = im.size: what the call can
\* return, over the float errors of its roundings
NewSizes(src, j) ==
    {compute_new_size(ImageSize(src)[1], ImageSize(src)[2], j.resize_mode,
                      j.keep_aspect, j.width, j.height, j.percent, fe) :
        fe \in FloatErr}

\* the try block of one file; every exception is swallowed
RunBody ==
    /\ pc = "body"
    /\ \E outcome \in BodyOutcomes, new \in NewSizes(fp, job) :
          LET out_path == OutPathOf(fs, job.out_dir, job.out_fmt, fp)
              named == outcome \in SaveOutcomes
          IN  /\ fs' = IF named THEN save_image(fs, out_path, outcome) ELSE fs
              /\ attempted' = Append(attempted,
                                 IF outcome = "saved"
                                 THEN [fp |-> fp, saved |-> TRUE,
                                       out_path |-> out_path, size |-> new]
                                 ELSE [fp |-> fp, saved |-> FALSE,
                                       out_path |-> NoPath, size |-> <<0, 0>>])
    /\ pc' = "emit"
    /\ UNCHANGED <<gui_vars, job, total, done, it, fp, dirs, inbox, events,
                   job_files, uncaught, runs, pure_vars>>

\* done += 1; self.progress.emit(done, total)
RunEmit ==
    /\ pc = "emit"
    /\ done' = done + 1
    /\ Emit(Progress(done + 1, total))
    /\ pc' = "loop"
    /\ UNCHANGED <<gui_vars, job, total, it, fp, fs_vars, attempted, job_files,
                   uncaught, runs, pure_vars>>

\* the terminal signal emitted, and the handler of the outer try entered as well
RunFinishAndFail ==
    /\ pc = "finish"
    /\ inbox' = inbox \o <<FinishedOk(job.out_dir), Failed("late")>>
    /\ events' = events \o <<FinishedOk(job.out_dir), Failed("late")>>
    /\ Return
    /\ UNCHANGED <<gui_vars, job, fs_vars, attempted, job_files, uncaught, runs,
                   pure_vars>>

\* self.finished_ok.emit(self.out_dir)
RunFinish ==
    /\ pc = "finish"
    /\ Emit(FinishedOk(job.out_dir))
    /\ Return
    /\ UNCHANGED <<gui_vars, job, fs_vars, attempted, job_files, uncaught, runs,
                   pure_vars>>

\* the thread ends after run() has returned
ThreadFinished ==
    /\ pc = "done"
    /\ pc' = "ended"
    /\ UNCHANGED <<gui_vars, job, total, done, it, fp, fs_vars, inbox, hist_vars,
                   pure_vars>>

Next ==
    \/ AddPaths
    \/ ClearFiles
    \/ ConvertAllRejected
    \/ ConvertAllMkdirRaises
    \/ ConvertAllStarts
    \/ OnProgress
    \/ OnDone
    \/ OnFailed
    \/ RunMkdir
    \/ RunMkdirRaises
    \/ RunNext
    \/ RunBody
    \/ RunEmit
    \/ RunFinish
    \/ ThreadFinished

Spec == Init /\ [][Next]_vars

(***************************************************************************)
(* FairSpec: Spec with the scheduling the program can count on.  The       *)
(* worker thread, once started, keeps being scheduled (each call it makes  *)
(* returns or raises), and the event loop of the window keeps delivering   *)
(* the queued signals to on_progress, on_done and on_failed (the user      *)
(* closes the message boxes).  Nothing makes the user click.               *)
(***************************************************************************)
WorkerStep ==
    \/ RunMkdir
    \/ RunMkdirRaises
    \/ RunNext
    \/ RunBody
    \/ RunEmit
    \/ RunFinish
    \/ ThreadFinished

Delivery ==
    \/ OnProgress
    \/ OnDone
    \/ OnFailed

FairSpec == Spec /\ WF_vars(WorkerStep) /\ WF_vars(Delivery)

(***************************************************************************)
(* SpecPlan: compute_new_size on every input of the bounded sets.          *)
(***************************************************************************)
\* original sizes: the small ones, and 15, where a float product misses a tie
Dims == (1..MaxDim) \cup {15}
\* an Optional[int] bound: None, 0 (falsy, as None), or a positive bound
OptBounds == {NoneVal} \cup {Some(x) : x \in 0..MaxDim}
\* an Optional[int] factor: None, 0, a negative one, and factors below and above 100
OptPercents == {NoneVal} \cup {Some(x) : x \in {-50, 0, 10, 50, 100, 150, 410}}
Modes == {"none", "percent", "wh"}

InitPlan ==
    /\ InitWindow
    /\ fs = <<>>
    /\ dirs = {}
    /\ namer = NoNamer
    /\ scan = NoScan
    /\ enc = NoEnc
    /\ \E w \in Dims, h \in Dims, mode \in Modes, keep_aspect \in BOOLEAN,
          width \in OptBounds, height \in OptBounds, percent \in OptPercents,
          fe \in FloatErr :
          plan = [w |-> w, h |-> h, mode |-> mode, keep_aspect |-> keep_aspect,
                  width |-> width, height |-> height, percent |-> percent,
                  fe |-> fe, called |-> FALSE, out |-> <<0, 0>>]

ComputeNewSize ==
    /\ ~plan.called
    /\ plan' = [plan EXCEPT
                  !.called = TRUE,
                  !.out = compute_new_size(plan.w, plan.h, plan.mode,
                                           plan.keep_aspect, plan.width,
                                           plan.height, plan.percent, plan.fe)]
    /\ UNCHANGED <<gui_vars, run_vars, fs_vars, inbox, hist_vars, namer, scan, enc>>

NextPlan == ComputeNewSize

SpecPlan == InitPlan /\ [][NextPlan]_vars

(***************************************************************************)
(* SpecNamer: unique_path on every directory of the bounded sets, called   *)
(* twice with nothing created in between.                                  *)
(***************************************************************************)
\* the path asked for, and names built on it
Wanted == MkPath(OutDirOf("JPG"), "a", <<>>, "jpg")
NamerNames ==
    {Wanted} \cup {WithIndex(Wanted, i) : i \in 1..MaxTaken}
             \cup {WithIndex(WithIndex(Wanted, 1), 1),
                   MkPath(OutDirOf("JPG"), "a", <<1>>, "png"),
                   MkPath(OutDirOf("PNG"), "a", <<>>, "jpg")}
NamerPaths == {Wanted, WithIndex(Wanted, 1)}

InitNamer ==
    /\ InitWindow
    /\ fs = <<>>
    /\ dirs = {}
    /\ plan = NoPlan
    /\ scan = NoScan
    /\ enc = NoEnc
    /\ \E exists \in SUBSET NamerNames, path \in NamerPaths :
          namer = [exists |-> exists, path |-> path, out |-> <<>>]

UniquePath ==
    /\ Len(namer.out) < 2
    /\ namer' = [namer EXCEPT !.out = Append(@, unique_path(namer.exists, namer.path))]
    /\ UNCHANGED <<gui_vars, run_vars, fs_vars, inbox, hist_vars, plan, scan, enc>>

NextNamer == UniquePath

SpecNamer == InitNamer /\ [][NextNamer]_vars

(***************************************************************************)
(* SpecRun: one ConvertWorker, constructed with a file list and a job of   *)
(* the bounded sets and started; nothing else touches the list.            *)
(***************************************************************************)
Out_a2_jpg == WithIndex(Out_a_jpg, 2)
RunImages == {A_png, A_bmp, Out_a_jpg}
RunPreExisting == {Out_a_jpg, Out_a2_jpg}

RECURSIVE SeqsUpTo(_, _)
SeqsUpTo(S, n) ==
    IF n = 0 THEN {<<>>}
    ELSE LET shorter == SeqsUpTo(S, n - 1)
         IN  shorter \cup {Append(q, x) : q \in shorter, x \in S}

\* (out_fmt, resize_mode, keep_aspect, width, height, percent)
RunJobs ==
    { <<"JPG", "wh", TRUE, Some(50), NoneVal, NoneVal>>,
      <<"JPG", "none", TRUE, NoneVal, NoneVal, NoneVal>>,
      <<"PNG", "percent", FALSE, NoneVal, NoneVal, Some(50)>>,
      <<"WEBP", "wh", FALSE, Some(3), NoneVal, NoneVal>> }

InitRun ==
    /\ btn_convert = FALSE
    /\ pc = "start"
    /\ total = 0
    /\ done = 0
    /\ it = 0
    /\ fp = NoPath
    /\ inbox = <<>>
    /\ events = <<>>
    /\ attempted = <<>>
    /\ uncaught = 0
    /\ runs = 1
    /\ plan = NoPlan
    /\ namer = NoNamer
    /\ scan = NoScan
    /\ enc = NoEnc
    /\ \E pre \in SUBSET RunPreExisting, list \in SeqsUpTo(RunImages, MaxBatch),
          j \in RunJobs :
          /\ \A i \in 1..Len(list) : IsFile(list[i], GuiTree([p \in pre |-> PreFile]))
          /\ files = list
          /\ job_files = list
          /\ fs = [p \in pre |-> PreFile]
          /\ dirs = {p.dir : p \in pre}
          /\ job = [out_dir |-> OutDirOf(j[1]), out_fmt |-> j[1],
                    resize_mode |-> j[2], keep_aspect |-> j[3], width |-> j[4],
                    height |-> j[5], percent |-> j[6]]

NextRun ==
    \/ RunMkdir
    \/ RunMkdirRaises
    \/ RunNext
    \/ RunBody
    \/ RunEmit
    \/ RunFinish
    \/ ThreadFinished

SpecRun == InitRun /\ [][NextRun]_vars

(***************************************************************************)
(* SpecAgain: the window with a.png in its list and a user who clicks      *)
(* Convert All again and again.                                            *)
(***************************************************************************)
InitAgain ==
    /\ files = <<A_png>>
    /\ btn_convert = TRUE
    /\ pc = "none"
    /\ job = NoJob
    /\ total = 0
    /\ done = 0
    /\ it = 0
    /\ fp = NoPath
    /\ inbox = <<>>
    /\ events = <<>>
    /\ attempted = <<>>
    /\ job_files = <<>>
    /\ uncaught = 0
    /\ runs = 0
    /\ fs = <<>>
    /\ dirs = {}
    /\ plan = NoPlan
    /\ namer = NoNamer
    /\ scan = NoScan
    /\ enc = NoEnc

ConvertAllStartsAgain == ConvertAllStartsWithin(MaxAgain)

NextAgain ==
    \/ ConvertAllStartsAgain
    \/ OnProgress
    \/ OnDone
    \/ OnFailed
    \/ RunMkdir
    \/ RunMkdirRaises
    \/ RunNext
    \/ RunBody
    \/ RunEmit
    \/ RunFinish
    \/ ThreadFinished

SpecAgain == InitAgain /\ [][NextAgain]_vars

(***************************************************************************)
(* SpecScan: collect_images_from_path on the paths of a folder tree.       *)
(*   pics/  b.PNG  c.txt  f.png (a fifo)  g.png -> sub/d.tif               *)
(*          locked/ (no search permission)  e.jpg                          *)
(*          sub/    d.tif  loop -> pics                                    *)
(***************************************************************************)
Pics == DirPath(<<"pics">>)
B_PNG == MkPath(<<"pics">>, "b", <<>>, "PNG")
C_txt == MkPath(<<"pics">>, "c", <<>>, "txt")
F_png == MkPath(<<"pics">>, "f", <<>>, "png")
G_png == MkPath(<<"pics">>, "g", <<>>, "png")
Locked == DirPath(<<"pics", "locked">>)
E_jpg == MkPath(<<"pics", "locked">>, "e", <<>>, "jpg")
Sub == DirPath(<<"pics", "sub">>)
D_tif == MkPath(<<"pics", "sub">>, "d", <<>>, "tif")
Loop == MkPath(<<"pics", "sub">>, "loop", <<>>, "")
Gone_png == MkPath(<<"pics">>, "gone", <<>>, "png")

ScanEntries ==
    {Ent(Pics, "dir", NoPath, 1), Ent(B_PNG, "file", NoPath, 1),
     Ent(C_txt, "file", NoPath, 2), Ent(F_png, "fifo", NoPath, 3),
     Ent(G_png, "link", D_tif, 4), Ent(Locked, "dir_r", NoPath, 5),
     Ent(E_jpg, "file", NoPath, 1), Ent(Sub, "dir", NoPath, 6),
     Ent(D_tif, "file", NoPath, 1), Ent(Loop, "link", Pics, 2)}

\* the trees: an entry is in a directory that is there
ScanTrees ==
    {t \in SUBSET ScanEntries :
        \A e \in t : e.p = Pics \/ Present(t, ParentOf(e.p))}

ScanRoots == {Pics, B_PNG, C_txt, F_png, G_png, Locked, E_jpg, Sub, D_tif, Gone_png}

InitScan ==
    /\ InitWindow
    /\ fs = <<>>
    /\ dirs = {}
    /\ plan = NoPlan
    /\ namer = NoNamer
    /\ enc = NoEnc
    /\ \E t \in ScanTrees, root \in ScanRoots, strict \in BOOLEAN :
          scan = [tree |-> t, root |-> root, strict |-> strict, called |-> FALSE,
                  res |-> ScanResult(<<>>)]

CollectImages ==
    /\ ~scan.called
    /\ scan' = [scan EXCEPT
                  !.called = TRUE,
                  !.res = collect_images_from_path(scan.root, scan.tree, scan.strict)]
    /\ UNCHANGED <<gui_vars, run_vars, fs_vars, inbox, hist_vars, plan, namer, enc>>

NextScan == CollectImages

SpecScan == InitScan /\ [][NextScan]_vars

(***************************************************************************)
(* SpecSave: what save_image hands to the encoder.  An image is its pixel  *)
(* mode, whether its info holds a "transparency" entry (the tRNS chunk of  *)
(* a PNG, the transparent index of a GIF), and whether all of it is fully  *)
(* transparent.  The pixels handed over are "on_white" (blended onto       *)
(* white with the alpha as weight), "plain" (the image had no alpha),      *)
(* "alpha_dropped" (the colour values under the alpha, the alpha and the   *)
(* transparency entry ignored) or "as_is".                                 *)
(***************************************************************************)
\* the modes of Pillow that have an alpha band
AlphaModes == {"RGBA", "LA", "PA", "RGBa", "La"}
\* the modes a decoder may give a "transparency" entry
KeyedModes == {"1", "L", "P", "RGB"}
ImageModes == AlphaModes \cup KeyedModes \cup {"CMYK"}

CarriesAlpha(img) == img.mode \in AlphaModes \/ img.transparency

Images ==
    {img \in [mode : ImageModes, transparency : BOOLEAN, clear : BOOLEAN] :
        /\ img.transparency => img.mode \in KeyedModes
        /\ img.clear => CarriesAlpha(img)}

\* img.convert("RGB"): the colour values, any alpha left behind
ConvertRGB(img) == IF CarriesAlpha(img) THEN "alpha_dropped" ELSE "plain"

\* lines 86-91: the image save_image encodes as JPEG
JpegSource(img) ==
    IF img.mode \in {"RGBA", "LA"} \/ (img.mode = "P" /\ img.transparency)
    THEN "on_white"
    ELSE ConvertRGB(img)

\* fmt.upper()
Upper(fmt) ==
    CASE fmt = "jpg" -> "JPG"
      [] fmt = "jpeg" -> "JPEG"
      [] OTHER -> fmt

\* save_image(img, out_path, fmt, quality): the format, mode and pixels encoded
save_image_encodes(img, fmt, quality) ==
    LET fmt_upper == Upper(fmt)
    IN  IF fmt_upper \in {"JPG", "JPEG"}
        THEN [format |-> "JPEG", mode |-> "RGB", pixels |-> JpegSource(img)]
        ELSE IF fmt_upper = "PNG"
        THEN [format |-> "PNG", mode |-> img.mode, pixels |-> "as_is"]
        ELSE IF fmt_upper = "WEBP"
        THEN [format |-> "WEBP", mode |-> img.mode, pixels |-> "as_is"]
        ELSE [format |-> "by_suffix", mode |-> img.mode, pixels |-> "as_is"]

SaveFormats == OUT_FORMATS \cup {"jpeg", "JPEG"}
Qualities == {1, 85, 100}

InitSave ==
    /\ InitWindow
    /\ fs = <<>>
    /\ dirs = {}
    /\ plan = NoPlan
    /\ namer = NoNamer
    /\ scan = NoScan
    /\ \E img \in Images, fmt \in SaveFormats, quality \in Qualities :
          enc = [img |-> img, fmt |-> fmt, quality |-> quality, called |-> FALSE,
                 out |-> [format |-> "", mode |-> "", pixels |-> ""]]

SaveImage ==
    /\ ~enc.called
    /\ enc' = [enc EXCEPT !.called = TRUE,
                          !.out = save_image_encodes(enc.img, enc.fmt, enc.quality)]
    /\ UNCHANGED <<gui_vars, run_vars, fs_vars, inbox, hist_vars, plan, namer, scan>>

NextSave == SaveImage

SpecSave == InitSave /\ [][NextSave]_vars

(***************************************************************************)
(* The properties.                                                         *)
(***************************************************************************)

\* C9: in width/height mode with keep_aspect and both bounds supplied, the
\* result is the original scaled by the smaller of width/w and height/h
\* (each dimension the nearest integer to the scaled one, or 1 where that
\* is 0), and it fits within the bounds: nw <= width and nh <= height.
C9_FitWithin ==
    (/\ plan.called
     /\ plan.mode = "wh"
     /\ plan.keep_aspect
     /\ Truthy(plan.width)
     /\ Truthy(plan.height))
    => LET width == Val(plan.width)
           height == Val(plan.height)
           byWidth == width * plan.h <= height * plan.w
           num == IF byWidth THEN width ELSE height
           den == IF byWidth THEN plan.w ELSE plan.h
           Scaled(dim, new) ==
               \/ 2 * (new * den - dim * num) <= den /\ 2 * (dim * num - new * den) <= den
               \/ new = 1 /\ 2 * dim * num < den
       IN  /\ plan.out[1] <= width
           /\ plan.out[2] <= height
           /\ Scaled(plan.w, plan.out[1])
           /\ Scaled(plan.h, plan.out[2])

\* a call where the smaller ratio is the height's and a dimension is raised to 1
C9_Witness ==
    /\ plan.called
    /\ plan.mode = "wh"
    /\ plan.keep_aspect
    /\ plan.w = 1 /\ plan.h = 4
    /\ plan.width = Some(3) /\ plan.height = Some(1)
    /\ plan.out = <<1, 1>>

\* C10: for every original size and every resize policy, both dimensions
\* returned by compute_new_size are integers >= 1.
C10_AtLeastOne ==
    plan.called => /\ plan.out[1] \in Int /\ plan.out[1] >= 1
                   /\ plan.out[2] \in Int /\ plan.out[2] >= 1

\* a percent call whose exact result rounds to 0 and is raised to 1
C10_Witness ==
    /\ plan.called
    /\ plan.mode = "percent"
    /\ plan.percent = Some(10)
    /\ plan.w = 4 /\ plan.h = 1
    /\ plan.out = <<1, 1>>

\* C6: unique_path returns the path itself when nothing exists there, and
\* otherwise "stem (i).ext" for the smallest i >= 1 at which nothing exists,
\* whatever names exist (gaps included); it creates nothing, and a second
\* call on the same directory returns the same path.
C6_LowestFreeSlot ==
    \A k \in 1..Len(namer.out) :
        LET r == namer.out[k]
        IN  /\ r \notin namer.exists
            /\ namer.path \notin namer.exists => r = namer.path
            /\ namer.path \in namer.exists =>
                  \E i \in 1..(Cardinality(namer.exists) + 1) :
                      /\ r = WithIndex(namer.path, i)
                      /\ \A j \in 1..(i - 1) : WithIndex(namer.path, j) \in namer.exists
            /\ r = namer.out[1]

\* two calls on a directory with a gap: "a" and "a (2)" exist, "a (1)" does not
C6_Witness ==
    /\ Len(namer.out) = 2
    /\ namer.path = Wanted
    /\ Wanted \in namer.exists
    /\ WithIndex(Wanted, 1) \notin namer.exists
    /\ WithIndex(Wanted, 2) \in namer.exists
    /\ namer.out[2] = WithIndex(Wanted, 1)

\* the progress signals and the terminal signals of the current run
ProgressEvents == SelectSeq(events, LAMBDA e : e.sig = "progress")
Terminals == SelectSeq(events, LAMBDA e : e.sig \in {"finished_ok", "failed"})
Succeeded == events # <<>> /\ events[Len(events)].sig = "finished_ok"
HasFailed == \E k \in 1..Len(events) : events[k].sig = "failed"
Saved == {k \in 1..Len(attempted) : attempted[k].saved}
Skipped == {k \in 1..Len(attempted) : ~attempted[k].saved}
\* the worker has returned and the window has not yet handled its terminal signal
Returned == pc \in {"done", "ended"} /\ ~btn_convert

\* C1: for a batch of N files (the list when Convert was triggered), the
\* k-th progress signal carries done = k and total = N, and a run that ends
\* with finished_ok has emitted exactly N of them.
C1_ProgressPerFile ==
    /\ \A k \in 1..Len(ProgressEvents) :
          /\ ProgressEvents[k].done = k
          /\ ProgressEvents[k].total = Len(job_files)
    /\ Succeeded => Len(ProgressEvents) = Len(job_files)

\* C2: every started job produces exactly one terminal signal: none while
\* the worker runs, and once it has returned exactly one, the last signal
\* of the run, finished_ok with the output directory or failed with a message.
C2_OneTerminal ==
    /\ Len(Terminals) <= 1
    /\ pc \in {"start", "loop", "body", "emit", "finish"} => Len(Terminals) = 0
    /\ Returned =>
          /\ Len(Terminals) = 1
          /\ events[Len(events)] = Terminals[1]
          /\ Terminals[1].sig = "finished_ok" => Terminals[1].arg = job.out_dir

\* a run of two files, one saved and one skipped, that has ended with finished_ok
C2_Witness ==
    /\ Returned
    /\ Succeeded
    /\ Saved # {}
    /\ Skipped # {}

\* C3: when the creation of the destination directory fails, in
\* make_auto_output_dir or in run, no fault leaves convert_all uncaught and
\* the batch emits one failed signal and nothing else, with no file attempted.
C3_MkdirFailureReported ==
    /\ uncaught = 0
    /\ HasFailed => /\ Len(events) = 1
                    /\ attempted = <<>>

\* C4: when the destination directory can be created, per-file faults never
\* end the run with failed: a failed signal is never emitted once a file
\* has been attempted, and a run of N files of which k were skipped ends with
\* finished_ok, N - k files written and N progress signals.
C4_SkipsNeverFail ==
    /\ attempted # <<>> => ~HasFailed
    /\ Returned /\ ~HasFailed =>
          /\ Succeeded
          /\ Len(attempted) = Len(job_files)
          /\ Cardinality(Saved) = Len(job_files) - Cardinality(Skipped)
          /\ Len(ProgressEvents) = Len(job_files)

\* C5: a file whose try block raised leaves the destination directory as it
\* was before the file was attempted.
C5_SkipLeavesNothing ==
    [][(/\ pc = "body"
        /\ pc' = "emit"
        /\ ~attempted'[Len(attempted')].saved) => fs' = fs]_vars

\* C8: the job is immutable while the run is active: the worker attempts the
\* files of the list as it was when Convert was triggered, in order, reports
\* their number as total, and done never exceeds total nor stops short of it.
C8_JobImmutable ==
    /\ \A k \in 1..Len(attempted) :
          /\ k <= Len(job_files)
          /\ attempted[k].fp = job_files[k]
    /\ \A k \in 1..Len(ProgressEvents) :
          /\ ProgressEvents[k].total = Len(job_files)
          /\ ProgressEvents[k].done <= ProgressEvents[k].total
    /\ Succeeded => Len(attempted) = Len(job_files)

\* C7: naming is non-destructive over a run: every file of the output
\* directories stays as it was (an input living there included), a saved
\* output goes to a path at which nothing existed when it was chosen, and the
\* outputs of one run are at pairwise distinct paths.
C7_NonDestructive ==
    [][/\ \A p \in DOMAIN fs : p \in DOMAIN fs' /\ fs'[p] = fs[p]
       /\ (/\ Len(attempted') > Len(attempted)
           /\ attempted'[Len(attempted')].saved)
          => /\ attempted'[Len(attempted')].out_path \notin DOMAIN fs
             /\ attempted'[Len(attempted')].out_path \in DOMAIN fs'
       /\ \A i \in 1..Len(attempted') : \A j \in 1..Len(attempted') :
             (i # j /\ attempted'[i].saved /\ attempted'[j].saved)
             => attempted'[i].out_path # attempted'[j].out_path]_vars

\* a JPG run over a.png, a.bmp and the a.jpg of the output directory itself,
\* all three saved, with "a (2).jpg" there before: the outputs are at
\* "a (1).jpg", "a (3).jpg" and "a (4).jpg"
C7_Witness ==
    /\ job.out_fmt = "JPG"
    /\ Out_a_jpg \in DOMAIN fs /\ fs[Out_a_jpg] = PreFile
    /\ Out_a2_jpg \in DOMAIN fs /\ fs[Out_a2_jpg] = PreFile
    /\ Len(attempted) = 3
    /\ \A k \in 1..3 : attempted[k].saved
    /\ {attempted[k].fp : k \in 1..3} = {A_png, A_bmp, Out_a_jpg}
    /\ {attempted[k].out_path : k \in 1..3}
          = {WithIndex(Out_a_jpg, 1), WithIndex(Out_a_jpg, 3), WithIndex(Out_a_jpg, 4)}

\* Python's round on the exact quotient n / d, and round-half-up
RoundHalfEven(n, d) == Round(n, d, 0)
RoundHalfUp(n, d) == (2 * n + d) \div (2 * d)

\* C11: in percent mode with a factor f >= 1, compute_new_size returns
\* max(1, round(dim * f / 100)) for the width and for the height, each on its
\* own, round being one rule for both (half-to-even or half-up); for
\* f = 100 the result is the original size.
C11_PercentRounds ==
    (/\ plan.called
     /\ plan.mode = "percent"
     /\ plan.percent # NoneVal
     /\ Val(plan.percent) >= 1)
    => LET f == Val(plan.percent)
       IN  /\ \/ plan.out = <<Max(1, RoundHalfEven(plan.w * f, 100)),
                              Max(1, RoundHalfEven(plan.h * f, 100))>>
              \/ plan.out = <<Max(1, RoundHalfUp(plan.w * f, 100)),
                              Max(1, RoundHalfUp(plan.h * f, 100))>>
           /\ f = 100 => plan.out = <<plan.w, plan.h>>

\* C12: in percent mode with the factor None or 0, compute_new_size returns
\* (w, h), whatever width, height and keep_aspect are.
C12_NoFactorIdentity ==
    (/\ plan.called
     /\ plan.mode = "percent"
     /\ ~Truthy(plan.percent))
    => plan.out = <<plan.w, plan.h>>

\* the regular files with a supported extension below the directory d
ImagesBelow(t, d) ==
    {e.p : e \in {x \in t : /\ Len(x.p.dir) >= Len(d.dir)
                            /\ SubSeq(x.p.dir, 1, Len(d.dir)) = d.dir
                            /\ x.p # d
                            /\ Stat(t, x.p) = "file"
                            /\ SuffixLower(x.p.ext) \in SUPPORTED_EXTS}}

\* C13: collect_images_from_path(P) never raises; for a regular file with a
\* supported extension (in any case) it returns [P]; for a directory it
\* returns the regular files with a supported extension at any depth below
\* P, each once, links that lead back up not followed; for any other path it
\* returns the empty list.
C13_ScanNeverRaises ==
    scan.called =>
       LET t == scan.tree
           P == scan.root
           out == scan.res.out
       IN  /\ ~scan.res.raised
           /\ Stat(t, P) = "file" =>
                 out = IF SuffixLower(P.ext) \in SUPPORTED_EXTS THEN <<P>> ELSE <<>>
           /\ Stat(t, P) = "dir" =>
                 /\ {out[i] : i \in 1..Len(out)} = ImagesBelow(t, P)
                 /\ \A i \in 1..Len(out) : \A j \in 1..Len(out) :
                       out[i] = out[j] => i = j
           /\ Stat(t, P) \notin {"file", "dir"} => out = <<>>

\* C14: with no name collision the output of an input with stem S is written
\* to BatchPix_<format in lower case>/S.<ext>, ext being jpg, png or webp,
\* at the size compute_new_size returns; a.png of 100x50 with width 50, no
\* height, keep aspect and format JPG is written to BatchPix_jpg/a.jpg at 50x25.
C14_OutputPathAndSize ==
    [][(/\ pc = "body"
        /\ pc' = "emit"
        /\ attempted'[Len(attempted')].saved)
       => LET a == attempted'[Len(attempted')]
              low == CASE job.out_fmt = "JPG" -> "jpg"
                       [] job.out_fmt = "PNG" -> "png"
                       [] job.out_fmt = "WEBP" -> "webp"
              wanted == [dir |-> <<"BatchPix_", low>>, base |-> fp.base,
                         sfx |-> fp.sfx, ext |-> low]
          IN  /\ wanted \notin DOMAIN fs =>
                    /\ a.out_path = wanted
                    /\ DOMAIN fs' = DOMAIN fs \cup {wanted}
                    /\ fs'[wanted] = Output
              /\ a.size \in NewSizes(fp, job)
              /\ (/\ fp = A_png
                  /\ job.out_fmt = "JPG" /\ job.resize_mode = "wh" /\ job.keep_aspect
                  /\ job.width = Some(50) /\ job.height = NoneVal)
                 => /\ a.size = <<50, 25>>
                    /\ wanted \notin DOMAIN fs => a.out_path = Out_a_jpg]_vars

\* the scenario: a.png alone, nothing in BatchPix_jpg before, saved
C14_Witness ==
    /\ job_files = <<A_png>>
    /\ job.out_fmt = "JPG" /\ job.resize_mode = "wh" /\ job.keep_aspect
    /\ job.width = Some(50) /\ job.height = NoneVal
    /\ Len(attempted) = 1
    /\ attempted[1] = [fp |-> A_png, saved |-> TRUE, out_path |-> Out_a_jpg,
                       size |-> <<50, 25>>]
    /\ DOMAIN fs = {Out_a_jpg}
    /\ fs[Out_a_jpg] = Output

\* C15: for the JPG target every source that carries alpha or transparency,
\* whatever its mode, is blended onto opaque white with its alpha as weight
\* before it is encoded (a fully transparent source gives an all-white
\* image), and a source with no alpha is converted to plain 3-channel RGB.
C15_JpgAlphaOnWhite ==
    (enc.called /\ Upper(enc.fmt) \in {"JPG", "JPEG"})
    => /\ enc.out.format = "JPEG"
       /\ enc.out.mode = "RGB"
       /\ CarriesAlpha(enc.img) => enc.out.pixels = "on_white"
       /\ ~CarriesAlpha(enc.img) => enc.out.pixels = "plain"

\* C16: the events of a run are ordered: the progress signal with done = k
\* is emitted after the k-th file of the input list has been attempted and
\* before the next one is started; finished_ok is emitted only after the
\* output directory exists and every input file has been attempted; no
\* progress signal follows the terminal signal.
C16_EventOrder ==
    /\ \A k \in 1..Len(ProgressEvents) :
          /\ ProgressEvents[k].done = k
          /\ k <= Len(attempted)
          /\ k <= Len(job_files)
          /\ attempted[k].fp = job_files[k]
    /\ pc = "body" => Len(attempted) = Len(ProgressEvents)
    /\ Len(attempted) <= Len(ProgressEvents) + 1
    /\ Succeeded =>
          /\ job.out_dir \in dirs
          /\ Len(attempted) = Len(job_files)
          /\ \A k \in 1..Len(job_files) : attempted[k].fp = job_files[k]
    /\ \A i \in 1..Len(events) : \A j \in 1..Len(events) :
          (i < j /\ events[i].sig \in {"finished_ok", "failed"})
          => events[j].sig # "progress"

\* a run is active from its start until the window has handled its terminal signal
RunActive ==
    \/ pc \in {"start", "loop", "body", "emit", "finish"}
    \/ \E k \in 1..Len(inbox) : inbox[k].sig \in {"finished_ok", "failed"}

\* C17: at most one ConvertWorker executes at any time: a new worker is
\* created and started, and self.worker replaced, only when no earlier worker
\* thread is still running; the Convert button is disabled from the start
\* of a run until its terminal notification has been handled.
C17_OneWorker ==
    [][/\ (runs' = runs + 1 /\ pc' = "start") => ~WorkerRunning
       /\ RunActive' => ~btn_convert']_vars

\* C18: after any sequence of add_paths and clear_files, self.files holds no
\* path twice, holds only paths that collect_images_from_path returned, and
\* keeps the order of first insertion: a call either empties the list or
\* appends paths that were not in it, and adding what is already there
\* leaves the list as it is.
C18_FilesDeduplicated ==
    [][/\ \A i \in 1..Len(files') : \A j \in 1..Len(files') :
             files'[i] = files'[j] => i = j
       /\ \A i \in 1..Len(files') :
             \E p \in UserPaths : InSeq(files'[i], UserImages[p])
       /\ \/ files' = <<>>
          \/ /\ Len(files') >= Len(files)
             /\ SubSeq(files', 1, Len(files)) = files]_vars

\* a.bmp was added first and the folder that holds a.png and a.bmp after it
C18_Witness == files = <<A_bmp, A_png>>

\* C19: every run that is started reaches a terminal state and the window
\* leaves the converting state: the worker eventually emits its terminal
\* signal, handling that signal enables the Convert button, after
\* finished_ok and after failed alike, and so a disabled button is
\* eventually enabled again.
C19_RunsEnd ==
    /\ (pc = "start") ~> (pc = "done" /\ Len(Terminals) = 1)
    /\ (~btn_convert) ~> btn_convert
    /\ [][(/\ inbox # <<>>
           /\ Head(inbox).sig \in {"finished_ok", "failed"}
           /\ inbox' = Tail(inbox)) => btn_convert']_vars

\* a run that failed at mkdir, its signal handled and the button enabled again
C19_Witness ==
    /\ runs = 1
    /\ pc = "ended"
    /\ btn_convert
    /\ inbox = <<>>
    /\ job.out_dir \notin dirs \/ job.out_fmt # ""

=============================================================================
